---- MODULE Spec2Model ----
(***************************************************************************)
(* CodeSnap (src/main.go): configuration loading, discovery with ignore    *)
(* patterns, the 8-worker classification pool of collectContent, report    *)
(* rendering, and the tree renderer generateFolderStructure.               *)
(*                                                                         *)
(* Paths are sequences of path segments (the text between separators);     *)
(* <<>> is ".", the directory of the default configPath "codesnap.yml".    *)
(* An absolute path starts with the segment "/".                           *)
(* File contents are run-length encoded byte strings: a sequence of        *)
(* <<byte, count>> runs, so that files longer than the 8KB sample keep     *)
(* their real length.                                                      *)
(***************************************************************************)
EXTENDS Bags, FiniteSets, Integers, Sequences, TLC

VARIABLES
    pc,          \* position of the main goroutine
    exitCode,    \* the exit status of the process, -1 while it runs
    showTree,    \* flag -t
    logOutput,   \* flag -l
    goos,        \* runtime.GOOS, which fixes the path separator
    configPath,  \* cs.configPath
    yaml,        \* the configuration file: missing, invalid, or the document it holds
    config,      \* cs.config
    disk,        \* the file system: the working directory's tree, and /opt/n.txt
    fi,          \* loop index of the folder / file loops
    filePaths,   \* collectContent: the candidate list
    jobs,        \* the buffered channel's queue
    jobsCap,     \* its capacity
    jobsClosed,  \* close(jobs) has happened
    sent,        \* number of candidates the producer has sent
    spawned,     \* number of worker goroutines started
    wg,          \* sync.WaitGroup counter
    workers,     \* bag of the worker goroutines' local states
    stats,       \* Stats{processed, empty, skipped}
    resultsMutex,\* TRUE while a worker holds resultsMutex
    results,     \* the shared []*FileResult
    buffer,      \* generateFolderStructure: the lines written so far
    treeStats,   \* generateFolderStructure: stats{dirs, files}
    content,     \* the string returned to main ("" when an error is returned)
    err,         \* the error returned to main ("nil" when none)
    clipboard,   \* what main handed to clipboard.WriteAll
    run,         \* ordinal of the current collectContent run
    prev         \* results and counters of the previous run

envVars == <<showTree, logOutput, goos, configPath, yaml, disk>>
poolVars == <<jobs, jobsCap, jobsClosed, sent, spawned, wg, workers, stats, resultsMutex, results>>
treeVars == <<buffer, treeStats>>
outVars == <<content, err, clipboard>>
vars == <<pc, exitCode, config, fi, filePaths, envVars, poolVars, treeVars, outVars, run, prev>>

----------------------------------------------------------------------------
(* Bounds of the model                                                     *)

MaxFolders == 2
MaxFiles == 1
MaxCandidates == 2
\* longest candidate list of one repeated file (more than the workers)
MaxQueue == 9

----------------------------------------------------------------------------
(* Sequences                                                               *)

RECURSIVE SeqSum(_)
SeqSum(s) == IF s = <<>> THEN 0 ELSE Head(s) + SeqSum(Tail(s))

RECURSIVE SeqToBag(_)
SeqToBag(s) == IF s = <<>> THEN EmptyBag ELSE SetToBag({Head(s)}) (+) SeqToBag(Tail(s))

RECURSIVE Flatten(_)
Flatten(ss) == IF ss = <<>> THEN <<>> ELSE Head(ss) \o Flatten(Tail(ss))

SeqsUpTo(S, n) == UNION {[1..k -> S] : k \in 0..n}

Min(a, b) == IF a < b THEN a ELSE b

----------------------------------------------------------------------------
(* Byte strings                                                            *)

SampleSize == 8192

Size(c) == SeqSum([i \in 1..Len(c) |-> c[i][2]])

\* buf[:n] after file.Read(buf): the first n bytes of c
RECURSIVE Take(_, _)
Take(c, n) ==
    IF c = <<>> \/ n = 0 THEN <<>>
    ELSE IF Head(c)[2] <= n THEN <<Head(c)>> \o Take(Tail(c), n - Head(c)[2])
    ELSE << <<Head(c)[1], n>> >>

\* bytes.Contains(buf, []byte{b})
ContainsByte(c, b) == \E i \in 1..Len(c) : c[i][1] = b /\ c[i][2] > 0

\* unicode/utf8: the decoder state is the number of continuation bytes still
\* expected and the range the next one must lie in.
Utf8Start == [need |-> 0, lo |-> 128, hi |-> 191, bad |-> FALSE]
Utf8Bad == [need |-> 0, lo |-> 128, hi |-> 191, bad |-> TRUE]
Utf8Cont(n, lo, hi) == [need |-> n, lo |-> lo, hi |-> hi, bad |-> FALSE]

Utf8Step(st, b) ==
    IF st.bad THEN Utf8Bad
    ELSE IF st.need = 0 THEN
        IF b < 128 THEN Utf8Start
        ELSE IF b >= 194 /\ b <= 223 THEN Utf8Cont(1, 128, 191)
        ELSE IF b = 224 THEN Utf8Cont(2, 160, 191)
        ELSE IF b = 237 THEN Utf8Cont(2, 128, 159)
        ELSE IF b >= 225 /\ b <= 239 THEN Utf8Cont(2, 128, 191)
        ELSE IF b = 240 THEN Utf8Cont(3, 144, 191)
        ELSE IF b >= 241 /\ b <= 243 THEN Utf8Cont(3, 128, 191)
        ELSE IF b = 244 THEN Utf8Cont(3, 128, 143)
        ELSE Utf8Bad
    ELSE IF b >= st.lo /\ b <= st.hi THEN Utf8Cont(st.need - 1, 128, 191)
    ELSE Utf8Bad

\* Feeding the same byte repeatedly reaches a fixed point within five steps
\* (ASCII: at once; a lead byte: rejected at the second; a continuation byte:
\* rejected once need is exhausted), so a run is decoded by its first five bytes.
RECURSIVE Utf8Run(_, _, _)
Utf8Run(st, b, n) == IF n = 0 THEN st ELSE Utf8Run(Utf8Step(st, b), b, n - 1)

RECURSIVE Utf8Scan(_, _)
Utf8Scan(st, c) ==
    IF c = <<>> THEN st
    ELSE Utf8Scan(Utf8Run(st, Head(c)[1], Min(Head(c)[2], 5)), Tail(c))

\* utf8.Valid(buf)
Utf8Valid(c) == LET st == Utf8Scan(Utf8Start, c) IN ~st.bad /\ st.need = 0

----------------------------------------------------------------------------
(* Paths                                                                   *)

\* filepath.IsAbs
IsAbs(p) == p /= <<>> /\ p[1] = "/"

\* filepath.Dir
Dir(p) == IF p = <<>> THEN <<>> ELSE SubSeq(p, 1, Len(p) - 1)

\* filepath.Base
Base(p) == IF p = <<>> THEN "." ELSE p[Len(p)]

\* filepath.Join
Join(d, p) == d \o p

RECURSIVE CommonPrefixLen(_, _)
CommonPrefixLen(a, b) ==
    IF a = <<>> \/ b = <<>> \/ Head(a) /= Head(b) THEN 0
    ELSE 1 + CommonPrefixLen(Tail(a), Tail(b))

\* filepath.Rel(base, targ): fails when only one of the two is absolute, or
\* when base has a ".." that targ does not share.
Rel(base, targ) ==
    LET k == CommonPrefixLen(base, targ)
        up == [i \in 1..(Len(base) - k) |-> ".."]
        down == SubSeq(targ, k + 1, Len(targ))
    IN  IF IsAbs(base) /= IsAbs(targ) THEN [ok |-> FALSE, path |-> <<>>]
        ELSE IF \E i \in (k + 1)..Len(base) : base[i] = ".." THEN [ok |-> FALSE, path |-> <<>>]
        ELSE IF up \o down = <<>> THEN [ok |-> TRUE, path |-> <<".">>]
        ELSE [ok |-> TRUE, path |-> up \o down]

\* os.PathSeparator
Separator == IF goos = "windows" THEN "\\" ELSE "/"

\* the string of a relative path: its segments with the separator between
\* them; <<>> is the empty string
RECURSIVE PathString(_)
PathString(p) ==
    IF p = <<>> THEN <<>>
    ELSE IF Len(p) = 1 THEN p
    ELSE <<Head(p), Separator>> \o PathString(Tail(p))

\* filepath.ToSlash
ToSlash(str) == [i \in 1..Len(str) |-> IF str[i] = Separator THEN "/" ELSE str[i]]

\* the "/"-separated parts of a string, as doublestar.Match takes them
SplitSlash(str) == SelectSeq(str, LAMBDA tok : tok /= "/")

\* cs.resolvePath
resolvePath(path) == IF IsAbs(path) THEN path ELSE Join(Dir(configPath), path)

----------------------------------------------------------------------------
(* Ignore patterns: a pattern is the sequence of its "/"-separated parts.  *)

\* the extension of a name of the model's file system
Ext(name) ==
    CASE name \in {"x.bin"} -> "bin"
      [] name \in {"c.txt", "z.txt", "nofile.txt", "n.txt"} -> "txt"
      [] name \in {"top.md"} -> "md"
      [] name \in {"codesnap.yml"} -> "yml"
      [] OTHER -> ""

\* one pattern part against one path segment
SegMatch(tok, seg) ==
    CASE tok = "*" -> TRUE
      [] tok = "*.bin" -> Ext(seg) = "bin"
      [] tok = "*.txt" -> Ext(seg) = "txt"
      [] tok = "*.md" -> Ext(seg) = "md"
      [] OTHER -> tok = seg

\* "**" matches zero or more segments, every other part exactly one
RECURSIVE MatchSegs(_, _)
MatchSegs(pat, name) ==
    IF pat = <<>> THEN name = <<>>
    ELSE IF Head(pat) = "**"
         THEN MatchSegs(Tail(pat), name) \/ (name /= <<>> /\ MatchSegs(pat, Tail(name)))
    ELSE name /= <<>> /\ SegMatch(Head(pat), Head(name)) /\ MatchSegs(Tail(pat), Tail(name))

\* a part with an unterminated character class makes the pattern malformed
Malformed(pat) == \E i \in 1..Len(pat) : pat[i] = "["

\* doublestar.Match(pattern, name)
Match(pat, name) ==
    IF Malformed(pat) THEN [matched |-> FALSE, err |-> "ErrBadPattern"]
    ELSE [matched |-> MatchSegs(pat, name), err |-> "nil"]

\* mutant: a pattern whose match reports an error ends the loop
RECURSIVE AnyMatch_StopAtError(_, _)
AnyMatch_StopAtError(pats, relPath) ==
    IF pats = <<>> THEN FALSE
    ELSE LET m == Match(Head(pats), relPath)
         IN  IF m.err /= "nil" THEN FALSE
             ELSE IF m.matched THEN TRUE
             ELSE AnyMatch_StopAtError(Tail(pats), relPath)

RECURSIVE AnyMatch(_, _)
AnyMatch(pats, relPath) ==
    IF pats = <<>> THEN FALSE
    ELSE LET m == Match(Head(pats), relPath)
         IN  IF m.err = "nil" /\ m.matched THEN TRUE ELSE AnyMatch(Tail(pats), relPath)

\* mutant: the loop returns after the first pattern
shouldIncludeFile_FirstPatternOnly(path) ==
    LET rel == Rel(Dir(configPath), path)
    IN  IF ~rel.ok \/ config.Ignore = <<>> THEN TRUE
        ELSE LET m == Match(config.Ignore[1], rel.path)
             IN  ~(m.err = "nil" /\ m.matched)

\* cs.shouldIncludeFile
shouldIncludeFile(path) ==
    LET rel == Rel(Dir(configPath), path)
    IN  IF ~rel.ok THEN TRUE
        ELSE ~AnyMatch(config.Ignore, SplitSlash(ToSlash(PathString(rel.path))))

----------------------------------------------------------------------------
(* The file system                                                         *)

Exists(path) == path \in DOMAIN disk

IsDir(path) == Exists(path) /\ disk[path].isDir

\* doublestar.FilepathGlob(folder/**): the folder and everything below it,
\* depth first, each directory's entries in name order
RECURSIVE Walk(_)
Walk(path) ==
    IF ~Exists(path) THEN <<>>
    ELSE IF ~disk[path].isDir THEN <<path>>
    ELSE IF ~disk[path].perm THEN <<>>
    ELSE <<path>> \o Flatten([i \in 1..Len(disk[path].entries) |->
                                Walk(Join(path, <<disk[path].entries[i]>>))])

FilepathGlob(folderPath) == Walk(folderPath)

\* mutant: the checks run over the whole file instead of the sample
validateFile_WholeFile(filepath) ==
    LET f == disk[filepath]
    IN  IF filepath \notin DOMAIN disk \/ ~f.perm
            THEN [isValid |-> FALSE, content |-> <<>>, err |-> "cannot open file"]
        ELSE IF f.size = 0
            THEN [isValid |-> TRUE, content |-> <<>>, err |-> "nil"]
        ELSE IF f.isDir
            THEN [isValid |-> FALSE, content |-> <<>>, err |-> "error reading file"]
        ELSE IF \E i \in 1..Len(f.content) : f.content[i][1] = 0
            THEN [isValid |-> FALSE, content |-> <<>>, err |-> "file appears to be binary"]
        ELSE IF ~Utf8Valid(f.content)
            THEN [isValid |-> FALSE, content |-> <<>>, err |-> "file contains invalid UTF-8 characters"]
        ELSE [isValid |-> TRUE, content |-> f.content, err |-> "nil"]

\* mutant: the sample is 4KB instead of 8KB
validateFile_HalfSample(filepath) ==
    LET f == disk[filepath]
        buf == Take(f.content, Min(4096, Size(f.content)))
    IN  IF ~Exists(filepath) \/ ~f.perm
            THEN [isValid |-> FALSE, content |-> <<>>, err |-> "cannot open file"]
        ELSE IF f.size = 0
            THEN [isValid |-> TRUE, content |-> <<>>, err |-> "nil"]
        ELSE IF f.isDir
            THEN [isValid |-> FALSE, content |-> <<>>, err |-> "error reading file"]
        ELSE IF ContainsByte(buf, 0)
            THEN [isValid |-> FALSE, content |-> <<>>, err |-> "file appears to be binary"]
        ELSE IF ~Utf8Valid(buf)
            THEN [isValid |-> FALSE, content |-> <<>>, err |-> "file contains invalid UTF-8 characters"]
        ELSE [isValid |-> TRUE, content |-> f.content, err |-> "nil"]

\* validateFile, on a file system that does not change or fail under it: Open
\* fails on a missing or unreadable path, Read fills the buffer up to the end
\* of a regular file and fails on a directory
validateFile(filepath) ==
    LET f == disk[filepath]
        buf == Take(f.content, Min(SampleSize, Size(f.content)))
    IN  IF ~Exists(filepath) \/ ~f.perm
            THEN [isValid |-> FALSE, content |-> <<>>, err |-> "cannot open file"]
        ELSE IF f.size = 0
            THEN [isValid |-> TRUE, content |-> <<>>, err |-> "nil"]
        ELSE IF f.isDir
            THEN [isValid |-> FALSE, content |-> <<>>, err |-> "error reading file"]
        ELSE IF ContainsByte(buf, 0)
            THEN [isValid |-> FALSE, content |-> <<>>, err |-> "file appears to be binary"]
        ELSE IF ~Utf8Valid(buf)
            THEN [isValid |-> FALSE, content |-> <<>>, err |-> "file contains invalid UTF-8 characters"]
        ELSE [isValid |-> TRUE, content |-> f.content, err |-> "nil"]

----------------------------------------------------------------------------
(* Inputs: the file systems and configuration documents of the model       *)

\* the byte strings a file of the model can hold
ContentOf(kind) ==
    CASE kind = "text" -> << <<104, 1>>, <<105, 1>> >>
      [] kind = "empty" -> <<>>
      [] kind = "nul" -> << <<0, 1>>, <<1, 1>> >>
      [] kind = "nulEdge" -> << <<97, SampleSize - 1>>, <<0, 1>>, <<97, 5>> >>
      [] kind = "nulBeyond" -> << <<97, SampleSize>>, <<0, 1>> >>
      [] kind = "badUtf8" -> << <<97, 1>>, <<255, 1>> >>
      [] kind = "badBeyond" -> << <<97, SampleSize>>, <<255, 1>> >>
      [] kind = "multi" -> << <<195, 1>>, <<169, 1>> >>
      [] kind = "span" -> << <<97, SampleSize - 1>>, <<195, 1>>, <<169, 1>> >>
      [] kind = "noperm" -> << <<104, 1>>, <<105, 1>> >>

Kinds == {"text", "empty", "nul", "nulEdge", "nulBeyond", "badUtf8", "badBeyond", "multi", "span", "noperm"}

\* a directory has a non-zero size and no readable bytes
DirEntry(entries, perm) ==
    [isDir |-> TRUE, entries |-> entries, content |-> <<>>, perm |-> perm, size |-> 4096]

FileEntry(kind) ==
    [isDir |-> FALSE, entries |-> <<>>, content |-> ContentOf(kind),
     perm |-> kind /= "noperm", size |-> Size(ContentOf(kind))]

PC == <<"src", "a", "b", "c.txt">>
PX == <<"src", "x.bin">>
PZ == <<"lib", "z.txt">>
PT == <<"top.md">>
\* a file outside the working directory, named by its absolute path
PA == <<"/", "opt", "n.txt">>

\* ./codesnap.yml  ./lib/z.txt  ./src/a/b/c.txt  ./src/x.bin  ./top.md  /opt/n.txt
DiskOf(kc, kx, kz, kt) ==
    (<<>> :> DirEntry(<<"codesnap.yml", "lib", "src", "top.md">>, TRUE))
    @@ (<<"codesnap.yml">> :> FileEntry("text"))
    @@ (<<"lib">> :> DirEntry(<<"z.txt">>, TRUE))
    @@ (PZ :> FileEntry(kz))
    @@ (<<"src">> :> DirEntry(<<"a", "x.bin">>, TRUE))
    @@ (<<"src", "a">> :> DirEntry(<<"b">>, TRUE))
    @@ (<<"src", "a", "b">> :> DirEntry(<<"c.txt">>, TRUE))
    @@ (PC :> FileEntry(kc))
    @@ (PX :> FileEntry(kx))
    @@ (PT :> FileEntry(kt))
    @@ (PA :> FileEntry("text"))

BaseDisk == DiskOf("text", "nul", "empty", "text")

FolderRefs == {<<"src">>, <<"lib">>, <<"gone">>}
FileRefs == {PT, PX, <<"nofile.txt">>, <<"src", "a">>}
IgnoreLists ==
    { <<>>,
      << <<"**", "*.bin">> >>,
      << <<"[">>, <<"**", "*.txt">> >>,
      << <<"src">>, <<"src", "a", "**">>, <<"*.md">> >> }
MaxTreeDepth == 2

NoConfig == [Folders |-> <<>>, Files |-> <<>>, Ignore |-> <<>>, TreeDepth |-> 0]

YamlDoc(c) == [state |-> "ok", doc |-> c]

----------------------------------------------------------------------------
(* Initial states                                                          *)

NumWorkers == 8

NoResult == [path |-> <<>>, relPath |-> <<>>, content |-> <<>>, isEmpty |-> FALSE,
             err |-> "nil", isValid |-> FALSE, skipped |-> FALSE]

NoReturn == [isValid |-> FALSE, content |-> <<>>, err |-> "nil"]

\* a worker blocked in "for filePath := range jobs"
IdleWorker == [pc |-> "recv", ret |-> NoReturn, result |-> NoResult, processed |-> 0, skipped |-> 0]

ZeroStats == [processed |-> 0, empty |-> 0, skipped |-> 0]

NoPrev == [results |-> <<>>, stats |-> ZeroStats, content |-> <<>>]

StartOn(os, y, d, t, l) ==
    /\ goos = os
    /\ yaml = y /\ disk = d /\ showTree = t /\ logOutput = l
    /\ configPath = <<"codesnap.yml">>
    /\ pc = "findConfig" /\ exitCode = -1
    /\ config = NoConfig
    /\ fi = 1 /\ filePaths = <<>>
    /\ jobs = <<>> /\ jobsCap = 0 /\ jobsClosed = FALSE /\ sent = 0
    /\ spawned = 0 /\ wg = 0 /\ workers = EmptyBag
    /\ stats = ZeroStats /\ resultsMutex = FALSE /\ results = <<>>
    /\ buffer = <<>> /\ treeStats = [dirs |-> 0, files |-> 0]
    /\ content = <<>> /\ err = "nil" /\ clipboard = <<>>
    /\ run = 1 /\ prev = NoPrev

Start(y, d, t, l) == StartOn("linux", y, d, t, l)

\* content mode over the base file system: every list of folders, no files
InitFolders == \E fo \in SeqsUpTo(FolderRefs, MaxFolders), ig \in IgnoreLists :
    Start(YamlDoc([Folders |-> fo, Files |-> <<>>, Ignore |-> ig, TreeDepth |-> 0]),
          BaseDisk, FALSE, FALSE)

\* content mode over the base file system: every list of files, after no
\* folder or after a missing and an existing one
InitFiles == \E fo \in {<<>>, << <<"gone">>, <<"src">> >>}, fl \in SeqsUpTo(FileRefs, MaxFiles),
                ig \in IgnoreLists :
    Start(YamlDoc([Folders |-> fo, Files |-> fl, Ignore |-> ig, TreeDepth |-> 0]),
          BaseDisk, FALSE, FALSE)

\* content mode with a missing or an unparsable configuration file
InitNoConfig == \E st \in {"missing", "invalid"} :
    Start([state |-> st, doc |-> NoConfig], BaseDisk, FALSE, FALSE)

\* one configuration with two candidates: every content of top.md beside a
\* text, empty, binary or unreadable lib/z.txt
InitContents == \E kz \in {"text", "empty", "nulEdge", "noperm"}, kt \in Kinds, l \in BOOLEAN :
    Start(YamlDoc([Folders |-> << <<"lib">> >>, Files |-> <<PT>>, Ignore |-> <<>>, TreeDepth |-> 0]),
          DiskOf("text", "nul", kz, kt), FALSE, l)

\* tree mode over the base file system: every list of folders, with and
\* without a file reference, and every depth limit
InitTree == \E fo \in SeqsUpTo(FolderRefs, MaxFolders), fl \in {<<>>, <<PT>>}, ig \in IgnoreLists,
               td \in 0..MaxTreeDepth :
    Start(YamlDoc([Folders |-> fo, Files |-> fl, Ignore |-> ig, TreeDepth |-> td]),
          BaseDisk, TRUE, FALSE)

\* tree mode with a directory that cannot be read, before or after a
\* readable one
InitTreeDenied == \E fo \in {<< <<"lib">>, <<"src">> >>, << <<"src">>, <<"lib">> >>} :
    Start(YamlDoc([Folders |-> fo, Files |-> <<>>, Ignore |-> <<>>, TreeDepth |-> 0]),
          [BaseDisk EXCEPT ![<<"lib">>].perm = FALSE], TRUE, FALSE)

\* content mode: two folders with files, then a file reference
InitOrder == \E ig \in IgnoreLists :
    Start(YamlDoc([Folders |-> << <<"lib">>, <<"src">> >>, Files |-> <<PT>>, Ignore |-> ig,
                   TreeDepth |-> 0]),
          BaseDisk, FALSE, FALSE)

\* content mode on either platform: a folder, then a file named by a
\* relative or by an absolute path
InitPaths == \E os \in {"linux", "windows"}, f \in {PT, PA} :
    StartOn(os, YamlDoc([Folders |-> << <<"lib">> >>, Files |-> <<f>>, Ignore |-> <<>>,
                         TreeDepth |-> 0]),
            BaseDisk, FALSE, FALSE)

Init ==
    \/ InitFolders \/ InitFiles \/ InitNoConfig \/ InitContents \/ InitTree
    \/ InitPaths \/ InitOrder \/ InitTreeDenied

----------------------------------------------------------------------------
(* main and NewCodeSnap                                                    *)

\* findOrCreateConfig: a missing configuration file is replaced by the
\* template and the process exits with status 0
FindOrCreateConfig ==
    /\ pc = "findConfig"
    /\ IF yaml.state = "missing"
       THEN /\ pc' = "exit" /\ exitCode' = 0
            /\ yaml' = [state |-> "template", doc |-> NoConfig]
       ELSE /\ pc' = "loadConfig"
            /\ UNCHANGED <<exitCode, yaml>>
    /\ UNCHANGED <<config, fi, filePaths, showTree, logOutput, goos, configPath, disk,
                   poolVars, treeVars, outVars, run, prev>>

\* mutant: the validation accepts every document
ConfigIsUsable_Always(c) == TRUE

\* the validation at the end of loadConfig
ConfigIsUsable(c) == ~(Len(c.Folders) = 0 /\ Len(c.Files) = 0)

\* loadConfig, and the start of the selected mode in main
LoadConfig ==
    /\ pc = "loadConfig"
    /\ IF yaml.state = "invalid"
       THEN /\ err' = "invalid YAML format" /\ pc' = "return"
            /\ UNCHANGED config
       ELSE IF ~ConfigIsUsable(yaml.doc)
       THEN /\ err' = "configuration must specify at least one file or folder to process"
            /\ pc' = "return"
            /\ UNCHANGED config
       ELSE /\ config' = yaml.doc
            /\ pc' = IF showTree THEN "tree" ELSE "discover"
            /\ UNCHANGED err
    /\ UNCHANGED <<exitCode, fi, filePaths, envVars, poolVars, treeVars, content, clipboard, run, prev>>

----------------------------------------------------------------------------
(* collectContent: discovery                                               *)

\* the matches of one folder that are appended to filePaths
Candidates(matches) == SelectSeq(matches, LAMBDA m : Exists(m) /\ ~IsDir(m) /\ shouldIncludeFile(m))

\* mutant: a folder that does not exist ends the run with an error
DiscoverFolder_AbortOnMissing ==
    /\ pc = "discover" /\ fi <= Len(config.Folders)
    /\ LET folderPath == IF IsAbs(config.Folders[fi]) THEN config.Folders[fi]
                         ELSE SubSeq(configPath, 1, Len(configPath) - 1) \o config.Folders[fi]
       IN  IF folderPath \notin DOMAIN disk
           THEN /\ err' = "folder not found" /\ pc' = "return"
                /\ UNCHANGED <<fi, filePaths>>
           ELSE /\ filePaths' = filePaths \o Candidates(FilepathGlob(folderPath))
                /\ fi' = fi + 1
                /\ UNCHANGED <<pc, err>>
    /\ UNCHANGED <<exitCode, config, envVars, poolVars, treeVars, content, clipboard, run, prev>>

\* one iteration of the loop over cs.config.Folders
DiscoverFolder ==
    /\ pc = "discover" /\ fi <= Len(config.Folders)
    /\ LET folderPath == resolvePath(config.Folders[fi])
       IN  filePaths' = IF ~Exists(folderPath) THEN filePaths
                        ELSE filePaths \o Candidates(FilepathGlob(folderPath))
    /\ fi' = fi + 1
    /\ UNCHANGED <<pc, exitCode, config, envVars, poolVars, treeVars, outVars, run, prev>>

\* mutant: a file reference is put in front of the list
DiscoverFile_Prepend ==
    /\ pc = "discover" /\ fi > Len(config.Folders)
    /\ fi <= Len(config.Folders) + Len(config.Files)
    /\ LET filePath == resolvePath(config.Files[fi - Len(config.Folders)])
       IN  filePaths' = IF shouldIncludeFile(filePath) THEN <<filePath>> \o filePaths
                        ELSE filePaths
    /\ fi' = fi + 1
    /\ UNCHANGED <<pc, exitCode, config, envVars, poolVars, treeVars, outVars, run, prev>>

\* one iteration of the loop over cs.config.Files
DiscoverFile ==
    /\ pc = "discover" /\ fi > Len(config.Folders)
    /\ fi <= Len(config.Folders) + Len(config.Files)
    /\ LET filePath == resolvePath(config.Files[fi - Len(config.Folders)])
       IN  filePaths' = IF shouldIncludeFile(filePath) THEN Append(filePaths, filePath)
                        ELSE filePaths
    /\ fi' = fi + 1
    /\ UNCHANGED <<pc, exitCode, config, envVars, poolVars, treeVars, outVars, run, prev>>

\* the candidate lists the model follows into the pool: the short ones, and
\* longer ones that name one file again and again
Followed(fp) ==
    \/ Len(fp) <= MaxCandidates
    \/ Len(fp) <= MaxQueue /\ \A i \in 1..Len(fp) : fp[i] = fp[1]

\* mutant: the channel holds one job, whatever the number of candidates
MakeJobs_OneSlot ==
    /\ pc = "discover" /\ fi > Len(config.Folders) + Len(config.Files)
    /\ Len(filePaths) <= MaxCandidates
    /\ jobs' = <<>> /\ jobsCap' = 1 /\ results' = <<>>
    /\ pc' = "spawn"
    /\ UNCHANGED <<exitCode, config, fi, filePaths, envVars, jobsClosed, sent, spawned, wg,
                   workers, stats, resultsMutex, treeVars, outVars, run, prev>>

\* make(chan string, len(filePaths)); results = make(..., 0, len(filePaths))
MakeJobs ==
    /\ pc = "discover" /\ fi > Len(config.Folders) + Len(config.Files)
    /\ Followed(filePaths)
    /\ jobs' = <<>> /\ jobsCap' = Len(filePaths) /\ results' = <<>>
    /\ pc' = "spawn"
    /\ UNCHANGED <<exitCode, config, fi, filePaths, envVars, jobsClosed, sent, spawned, wg,
                   workers, stats, resultsMutex, treeVars, outVars, run, prev>>

----------------------------------------------------------------------------
(* collectContent: the producer                                            *)

\* wg.Add(1); go func(workerID int) {...}(w)
Spawn ==
    /\ pc = "spawn"
    /\ wg' = wg + 1
    /\ workers' = workers (+) SetToBag({IdleWorker})
    /\ spawned' = spawned + 1
    /\ pc' = IF spawned + 1 = NumWorkers THEN "send" ELSE "spawn"
    /\ UNCHANGED <<exitCode, config, fi, filePaths, envVars, jobs, jobsCap, jobsClosed, sent,
                   stats, resultsMutex, results, treeVars, outVars, run, prev>>

\* jobs <- filePath
Send ==
    /\ pc = "send" /\ sent < Len(filePaths)
    /\ Len(jobs) < jobsCap
    /\ jobs' = Append(jobs, filePaths[sent + 1])
    /\ sent' = sent + 1
    /\ UNCHANGED <<pc, exitCode, config, fi, filePaths, envVars, jobsCap, jobsClosed, spawned, wg,
                   workers, stats, resultsMutex, results, treeVars, outVars, run, prev>>

\* mutant: the producer goes on to wait without closing the channel
Close_Forgotten ==
    /\ pc = "send" /\ sent = Len(filePaths)
    /\ pc' = "wait"
    /\ UNCHANGED <<exitCode, config, fi, filePaths, envVars, poolVars, treeVars, outVars, run, prev>>

\* close(jobs)
Close ==
    /\ pc = "send" /\ sent = Len(filePaths)
    /\ jobsClosed' = TRUE
    /\ pc' = "wait"
    /\ UNCHANGED <<exitCode, config, fi, filePaths, envVars, jobs, jobsCap, sent, spawned, wg,
                   workers, stats, resultsMutex, results, treeVars, outVars, run, prev>>

\* mutant: main goes on to render without waiting for the workers
Wait_NoWait ==
    /\ pc = "wait"
    /\ pc' = "render"
    /\ UNCHANGED <<exitCode, config, fi, filePaths, envVars, poolVars, treeVars, outVars, run, prev>>

\* wg.Wait()
Wait ==
    /\ pc = "wait" /\ wg = 0
    /\ pc' = "render"
    /\ UNCHANGED <<exitCode, config, fi, filePaths, envVars, poolVars, treeVars, outVars, run, prev>>

----------------------------------------------------------------------------
(* collectContent: the worker goroutines.  workerID is not used in the     *)
(* goroutine's body, so the pool is the bag of the workers' local states.  *)

Become(w, w2) == workers' = (workers (-) SetToBag({w})) (+) SetToBag({w2})

\* the queue of a channel after a receive
ChanRest(q) == Tail(q)

\* mutant: an append that writes over the last element, as two unsynchronised
\* appends do
AppendResult_Lost(rs, r) == IF rs = <<>> THEN <<r>> ELSE [rs EXCEPT ![Len(rs)] = r]

\* results = append(results, result)
AppendResult(rs, r) == Append(rs, r)

\* mutant: the worker takes its job off the candidate list as well
Recv_ConsumesList(w) ==
    /\ w.pc = "recv" /\ jobs /= <<>>
    /\ LET filePath == Head(jobs)
           rel == Rel(Dir(configPath), filePath)
           ret == validateFile(filePath)
       IN  Become(w, [w EXCEPT !.pc = "count", !.ret = ret,
                         !.result = [NoResult EXCEPT !.path = filePath,
                                                     !.relPath = PathString(rel.path),
                                                     !.isValid = ret.isValid]])
    /\ jobs' = Tail(jobs)
    /\ filePaths' = SelectSeq(filePaths, LAMBDA q : q /= Head(jobs))
    /\ UNCHANGED <<pc, exitCode, config, fi, envVars, jobsCap, jobsClosed, sent, spawned,
                   wg, stats, resultsMutex, results, treeVars, outVars, run, prev>>

\* "filePath := range jobs" delivers a job; relPath, validateFile and the
\* FileResult literal follow
Recv(w) ==
    /\ w.pc = "recv" /\ jobs /= <<>>
    /\ LET filePath == Head(jobs)
           rel == Rel(Dir(configPath), filePath)
           ret == validateFile(filePath)
       IN  Become(w, [w EXCEPT !.pc = "count", !.ret = ret,
                         !.result = [NoResult EXCEPT !.path = filePath,
                                                     !.relPath = PathString(rel.path),
                                                     !.isValid = ret.isValid]])
    /\ jobs' = ChanRest(jobs)
    /\ UNCHANGED <<pc, exitCode, config, fi, filePaths, envVars, jobsCap, jobsClosed, sent, spawned,
                   wg, stats, resultsMutex, results, treeVars, outVars, run, prev>>

\* the range loop ends on the closed, drained channel; the deferred wg.Done() runs
WorkerExit(w) ==
    /\ w.pc = "recv" /\ jobs = <<>> /\ jobsClosed
    /\ workers' = workers (-) SetToBag({w})
    /\ wg' = wg - 1
    /\ UNCHANGED <<pc, exitCode, config, fi, filePaths, envVars, jobs, jobsCap, jobsClosed, sent,
                   spawned, stats, resultsMutex, results, treeVars, outVars, run, prev>>

\* mutant: the skip branch forgets its counter
Counted_SkipNotCounted(st, ret) ==
    IF ret.err /= "nil" THEN st
    ELSE [st EXCEPT !.processed = @ + 1]

\* mutant: a skipped file is counted as processed as well
Counted_SkipIsProcessedToo(st, ret) ==
    IF ret.err /= "nil" THEN [st EXCEPT !.skipped = @ + 1, !.processed = @ + 1]
    ELSE [st EXCEPT !.processed = @ + 1]

\* the counters after the first atomic.AddInt64 of the branch taken
Counted(st, ret) ==
    IF ret.err /= "nil" THEN [st EXCEPT !.skipped = @ + 1]
    ELSE [st EXCEPT !.processed = @ + 1]

\* mutant: only an invalid file counts as empty
CountsAsEmpty_OnlyInvalid(ret) == ~ret.isValid

\* the condition under which a processed file is an empty one
CountsAsEmpty(ret) == ~ret.isValid \/ Size(ret.content) = 0

\* atomic.AddInt64(&stats.skipped, 1) or atomic.AddInt64(&stats.processed, 1)
Count(w) ==
    /\ w.pc = "count"
    /\ stats' = Counted(stats, w.ret)
    /\ IF w.ret.err /= "nil"
       THEN Become(w, [w EXCEPT !.pc = IF logOutput THEN "log" ELSE "lock",
                                !.result.err = w.ret.err, !.result.skipped = TRUE])
       ELSE Become(w, [w EXCEPT !.pc = IF CountsAsEmpty(w.ret) THEN "empty" ELSE "lock",
                                !.result.content = w.ret.content])
    /\ UNCHANGED <<pc, exitCode, config, fi, filePaths, envVars, jobs, jobsCap, jobsClosed, sent,
                   spawned, wg, resultsMutex, results, treeVars, outVars, run, prev>>

\* saveToOutput("Skipping ...")
LogSkip(w) ==
    /\ w.pc = "log"
    /\ Become(w, [w EXCEPT !.pc = "lock"])
    /\ UNCHANGED <<pc, exitCode, config, fi, filePaths, envVars, jobs, jobsCap, jobsClosed, sent,
                   spawned, wg, stats, resultsMutex, results, treeVars, outVars, run, prev>>

\* atomic.AddInt64(&stats.empty, 1); result.isEmpty = true
CountEmpty(w) ==
    /\ w.pc = "empty"
    /\ stats' = [stats EXCEPT !.empty = @ + 1]
    /\ Become(w, [w EXCEPT !.pc = "lock", !.result.isEmpty = TRUE])
    /\ UNCHANGED <<pc, exitCode, config, fi, filePaths, envVars, jobs, jobsCap, jobsClosed, sent,
                   spawned, wg, resultsMutex, results, treeVars, outVars, run, prev>>

\* resultsMutex.Lock()
Lock(w) ==
    /\ w.pc = "lock" /\ ~resultsMutex
    /\ resultsMutex' = TRUE
    /\ Become(w, [w EXCEPT !.pc = "append"])
    /\ UNCHANGED <<pc, exitCode, config, fi, filePaths, envVars, jobs, jobsCap, jobsClosed, sent,
                   spawned, wg, stats, results, treeVars, outVars, run, prev>>

\* results = append(results, result); resultsMutex.Unlock()
AppendUnlock(w) ==
    /\ w.pc = "append"
    /\ results' = AppendResult(results, w.result)
    /\ resultsMutex' = FALSE
    /\ Become(w, [w EXCEPT !.pc = "loadProcessed"])
    /\ UNCHANGED <<pc, exitCode, config, fi, filePaths, envVars, jobs, jobsCap, jobsClosed, sent,
                   spawned, wg, stats, treeVars, outVars, run, prev>>

\* processed := atomic.LoadInt64(&stats.processed)
LoadProcessed(w) ==
    /\ w.pc = "loadProcessed"
    /\ Become(w, [w EXCEPT !.pc = "loadSkipped", !.processed = stats.processed])
    /\ UNCHANGED <<pc, exitCode, config, fi, filePaths, envVars, jobs, jobsCap, jobsClosed, sent,
                   spawned, wg, stats, resultsMutex, results, treeVars, outVars, run, prev>>

\* skipped := atomic.LoadInt64(&stats.skipped); total; the progress condition
LoadSkipped(w) ==
    /\ w.pc = "loadSkipped"
    /\ LET total == w.processed + stats.skipped
       IN  IF total % 50 = 0 \/ total = Len(filePaths)
           THEN Become(w, [w EXCEPT !.pc = "print", !.skipped = stats.skipped])
           ELSE Become(w, IdleWorker)
    /\ UNCHANGED <<pc, exitCode, config, fi, filePaths, envVars, jobs, jobsCap, jobsClosed, sent,
                   spawned, wg, stats, resultsMutex, results, treeVars, outVars, run, prev>>

\* fmt.Printf("\rProcessed: ..."), then back to the range loop
PrintProgress(w) ==
    /\ w.pc = "print"
    /\ Become(w, IdleWorker)
    /\ UNCHANGED <<pc, exitCode, config, fi, filePaths, envVars, jobs, jobsCap, jobsClosed, sent,
                   spawned, wg, stats, resultsMutex, results, treeVars, outVars, run, prev>>

----------------------------------------------------------------------------
(* collectContent: rendering                                               *)

\* the text blocks of the Report
\* mutant: an empty file is written like any other section
FileBlock_NoEmptyMark(r) ==
    [kind |-> "text", relPath |-> r.relPath,
     content |-> IF r.isEmpty THEN <<>> ELSE r.content, counts |-> <<>>]

FileBlock(r) ==
    [kind |-> IF r.isEmpty THEN "empty" ELSE "text", relPath |-> r.relPath,
     content |-> IF r.isEmpty THEN <<>> ELSE r.content, counts |-> <<>>]

SummaryBlock(st) ==
    [kind |-> "summary", relPath |-> <<>>, content |-> <<>>,
     counts |-> <<st.processed, st.empty, st.skipped>>]

\* mutant: the loop has no "if result.skipped { continue }"
RECURSIVE RenderResults_All(_)
RenderResults_All(rs) ==
    IF rs = <<>> THEN <<>>
    ELSE <<[kind |-> IF Head(rs).isEmpty THEN "empty" ELSE "text", relPath |-> Head(rs).relPath,
            content |-> IF Head(rs).isEmpty THEN <<>> ELSE Head(rs).content, counts |-> <<>>]>>
         \o RenderResults_All(Tail(rs))

\* the loop over results: skipped results write nothing
RECURSIVE RenderResults(_)
RenderResults(rs) ==
    IF rs = <<>> THEN <<>>
    ELSE IF Head(rs).skipped THEN RenderResults(Tail(rs))
    ELSE <<FileBlock(Head(rs))>> \o RenderResults(Tail(rs))

\* mutant: the final check looks at all counted files instead of the processed ones
NothingProcessed_NoneCounted(st) == st.processed + st.skipped = 0

\* the final check of collectContent
NothingProcessed(st) == st.processed = 0

\* collectContent after wg.Wait(): body, summary, and the processed == 0 check
Render ==
    /\ pc = "render"
    /\ IF NothingProcessed(stats)
       THEN /\ content' = <<>> /\ err' = "no valid files were processed"
       ELSE /\ content' = RenderResults(results) \o <<SummaryBlock(stats)>>
            /\ err' = "nil"
    /\ pc' = "return"
    /\ UNCHANGED <<exitCode, config, fi, filePaths, envVars, poolVars, treeVars, clipboard, run, prev>>

\* main after NewCodeSnap, collectContent or generateFolderStructure returned
Exit ==
    /\ pc = "return"
    /\ pc' = "exit"
    /\ IF err /= "nil"
       THEN exitCode' = 1 /\ UNCHANGED clipboard
       ELSE \E ok \in BOOLEAN :
                IF ok THEN clipboard' = content /\ exitCode' = 0
                ELSE exitCode' = 1 /\ UNCHANGED clipboard
    /\ UNCHANGED <<config, fi, filePaths, envVars, poolVars, treeVars, content, err, run, prev>>

----------------------------------------------------------------------------
(* generateFolderStructure                                                 *)

\* one line of the tree text; path names the node a "node" line stands for
\* (only its base name is printed)
NodeLine(prefix, isLast, path) ==
    [kind |-> "node", prefix |-> prefix, connector |-> IF isLast THEN "L-- " ELSE "|-- ",
     name |-> Base(path), isDir |-> IsDir(path), path |-> path, counts |-> <<>>]

TextLine(kind, path, counts) ==
    [kind |-> kind, prefix |-> <<>>, connector |-> "", name |-> "", isDir |-> FALSE,
     path |-> path, counts |-> counts]

TreeResult(lines, dirs, files, e) == [lines |-> lines, dirs |-> dirs, files |-> files, err |-> e]

\* the entries of a directory that printTree descends into
filteredEntries(path) ==
    SelectSeq(disk[path].entries, LAMBDA name : shouldIncludeFile(Join(path, <<name>>)))

\* mutant: the limit is compared with >= instead of >
BeyondDepth_OffByOne(depth) == config.TreeDepth > 0 /\ depth >= config.TreeDepth

\* the depth check at the head of printTree
BeyondDepth(depth) == config.TreeDepth > 0 /\ depth > config.TreeDepth

RECURSIVE printTree(_, _, _, _)
RECURSIVE printEntries(_, _, _, _, _)

\* printTree: the lines written, the counters' increments and the error returned
printTree(path, prefix, isLast, depth) ==
    IF BeyondDepth(depth) THEN TreeResult(<<>>, 0, 0, "nil")
    ELSE IF ~Exists(path) THEN TreeResult(<<>>, 0, 0, "stat: no such file or directory")
    ELSE IF ~IsDir(path) THEN TreeResult(<<NodeLine(prefix, isLast, path)>>, 0, 1, "nil")
    ELSE IF ~disk[path].perm
        THEN TreeResult(<<NodeLine(prefix, isLast, path)>>, 1, 0, "open: permission denied")
    ELSE LET nextPrefix == Append(prefix, IF isLast THEN "    " ELSE "|   ")
             sub == printEntries(path, filteredEntries(path), 1, nextPrefix, depth + 1)
         IN  TreeResult(<<NodeLine(prefix, isLast, path)>> \o sub.lines,
                        1 + sub.dirs, sub.files, sub.err)

\* the loop over filteredEntries from index i on; it returns at the first error
printEntries(path, entries, i, nextPrefix, depth) ==
    IF i > Len(entries) THEN TreeResult(<<>>, 0, 0, "nil")
    ELSE LET r == printTree(Join(path, <<entries[i]>>), nextPrefix, i = Len(entries), depth)
         IN  IF r.err /= "nil" THEN r
             ELSE LET rest == printEntries(path, entries, i + 1, nextPrefix, depth)
                  IN  TreeResult(r.lines \o rest.lines, r.dirs + rest.dirs,
                                 r.files + rest.files, rest.err)

\* one iteration of the loop over cs.config.Folders
TreeFolder ==
    /\ pc = "tree" /\ fi <= Len(config.Folders)
    /\ LET folder == config.Folders[fi]
           r == printTree(resolvePath(folder), <<>>, fi = Len(config.Folders), 0)
       IN  /\ treeStats' = [dirs |-> treeStats.dirs + r.dirs, files |-> treeStats.files + r.files]
           /\ IF r.err /= "nil"
              THEN /\ buffer' = buffer \o <<TextLine("header", folder, <<>>)>> \o r.lines
                   /\ err' = "error processing folder" /\ content' = <<>>
                   /\ pc' = "return" /\ UNCHANGED fi
              ELSE /\ buffer' = buffer \o <<TextLine("header", folder, <<>>)>> \o r.lines
                                       \o <<TextLine("blank", <<>>, <<>>)>>
                   /\ fi' = fi + 1
                   /\ UNCHANGED <<pc, err, content>>
    /\ UNCHANGED <<exitCode, config, filePaths, envVars, poolVars, clipboard, run, prev>>

\* mutant: the summary is returned whatever the counters are
TreeSummary_NeverFails ==
    /\ pc = "tree" /\ fi > Len(config.Folders)
    /\ buffer' = Append(buffer, TextLine("summary", <<>>, <<treeStats.dirs, treeStats.files>>))
    /\ err' = "nil" /\ content' = buffer'
    /\ pc' = "return"
    /\ UNCHANGED <<exitCode, config, fi, filePaths, envVars, poolVars, treeStats, clipboard, run, prev>>

\* the summary and the final check of generateFolderStructure
TreeSummary ==
    /\ pc = "tree" /\ fi > Len(config.Folders)
    /\ buffer' = Append(buffer, TextLine("summary", <<>>, <<treeStats.dirs, treeStats.files>>))
    /\ IF treeStats.dirs = 0 /\ treeStats.files = 0
       THEN err' = "no valid folders or files were found" /\ content' = <<>>
       ELSE err' = "nil" /\ content' = buffer'
    /\ pc' = "return"
    /\ UNCHANGED <<exitCode, config, fi, filePaths, envVars, poolVars, treeStats, clipboard, run, prev>>

----------------------------------------------------------------------------
(* Specifications                                                          *)

Collect ==
    \/ FindOrCreateConfig \/ LoadConfig
    \/ DiscoverFolder \/ DiscoverFile \/ MakeJobs
    \/ Spawn \/ Send \/ Close \/ Wait
    \/ \E w \in BagToSet(workers) : Recv(w)
    \/ \E w \in BagToSet(workers) : WorkerExit(w)
    \/ \E w \in BagToSet(workers) : Count(w)
    \/ \E w \in BagToSet(workers) : LogSkip(w)
    \/ \E w \in BagToSet(workers) : CountEmpty(w)
    \/ \E w \in BagToSet(workers) : Lock(w)
    \/ \E w \in BagToSet(workers) : AppendUnlock(w)
    \/ \E w \in BagToSet(workers) : LoadProcessed(w)
    \/ \E w \in BagToSet(workers) : LoadSkipped(w)
    \/ \E w \in BagToSet(workers) : PrintProgress(w)
    \/ Render \/ Exit

Tree == TreeFolder \/ TreeSummary

Next == Collect \/ Tree

Spec == Init /\ [][Next]_vars

\* a second run of the program over the same file system and configuration
RunAgain ==
    /\ pc = "exit" /\ run = 1 /\ ~showTree /\ config /= NoConfig
    /\ prev' = [results |-> results, stats |-> stats, content |-> content]
    /\ run' = 2
    /\ pc' = "findConfig" /\ exitCode' = -1
    /\ config' = NoConfig
    /\ fi' = 1 /\ filePaths' = <<>>
    /\ jobs' = <<>> /\ jobsCap' = 0 /\ jobsClosed' = FALSE /\ sent' = 0
    /\ spawned' = 0 /\ wg' = 0 /\ workers' = EmptyBag
    /\ stats' = ZeroStats /\ resultsMutex' = FALSE /\ results' = <<>>
    /\ content' = <<>> /\ err' = "nil" /\ clipboard' = <<>>
    /\ UNCHANGED <<envVars, treeVars>>

\* two candidates, each a text, an empty or a binary file
InitTwice == \E kz \in {"text", "empty", "nul"}, kt \in {"text", "empty", "nul"}, l \in BOOLEAN :
    Start(YamlDoc([Folders |-> << <<"lib">> >>, Files |-> <<PT>>, Ignore |-> <<>>, TreeDepth |-> 0]),
          DiskOf("text", "nul", kz, kt), FALSE, l)

NextTwice == Collect \/ RunAgain

SpecTwice == InitTwice /\ [][NextTwice]_vars

\* the pool with no candidate, with one text, empty or binary candidate, and
\* with more candidates than workers: one binary file listed over and over
InitMany ==
    \/ \E n \in {0, 1}, kt \in {"text", "empty", "nul"} :
          Start(YamlDoc([Folders |-> << <<"gone">> >>, Files |-> [i \in 1..n |-> PT],
                         Ignore |-> <<>>, TreeDepth |-> 0]),
                DiskOf("text", "nul", "empty", kt), FALSE, TRUE)
    \/ Start(YamlDoc([Folders |-> <<>>, Files |-> [i \in 1..MaxQueue |-> PX],
                      Ignore |-> <<>>, TreeDepth |-> 0]),
             BaseDisk, FALSE, FALSE)

\* the Go scheduler does not leave every runnable goroutine waiting forever:
\* while some step of main or of a worker is possible, one is taken
Fairness == WF_vars(Collect)

SpecFair == InitMany /\ [][Collect]_vars /\ Fairness

----------------------------------------------------------------------------
(* Vocabulary of the properties                                            *)

\* collectContent has returned to main
Collected == ~showTree /\ config /= NoConfig /\ pc \in {"return", "exit"}

\* the relative path of a candidate, as matched and reported
RelOf(path) == Rel(Dir(configPath), path)

\* the string a section header shows for a candidate
Reported(path) == PathString(RelOf(path).path)

\* the path has a relative path and some ignore pattern matches it
Ignored(path) ==
    /\ RelOf(path).ok
    /\ \E i \in 1..Len(config.Ignore) : Match(config.Ignore[i], RelOf(path).path).matched

\* the path is a readable regular file of size zero
ZeroSize(path) == Exists(path) /\ ~disk[path].isDir /\ disk[path].perm /\ disk[path].size = 0

\* offset of the first NUL byte of a byte string, or -1
RECURSIVE NulOffset(_)
NulOffset(c) ==
    IF c = <<>> THEN -1
    ELSE IF Head(c)[1] = 0 /\ Head(c)[2] > 0 THEN 0
    ELSE LET rest == NulOffset(Tail(c))
         IN  IF rest = -1 THEN -1 ELSE Head(c)[2] + rest

\* the path is a readable non-empty regular file with a NUL byte among its first 8192 bytes
NulInSample(path) ==
    /\ Exists(path) /\ ~disk[path].isDir /\ disk[path].perm
    /\ NulOffset(disk[path].content) >= 0 /\ NulOffset(disk[path].content) < 8192

\* number of indices of a sequence whose element satisfies a condition
CountIn(s, Test(_)) == Cardinality({i \in 1..Len(s) : Test(s[i])})

\* the file blocks of the returned Report (all blocks but the summary)
Sections == SelectSeq(content, LAMBDA b : b.kind /= "summary")

\* the worker holds a job it has received and not yet appended
Holding(w) == w.pc \in {"count", "log", "empty", "lock", "append"}

RECURSIVE HeldPaths(_)
HeldPaths(ws) ==
    IF ws = {} THEN EmptyBag
    ELSE LET w == CHOOSE x \in ws : TRUE
             rest == HeldPaths(ws \ {w})
         IN  IF Holding(w) THEN [p \in {w.result.path} |-> CopiesIn(w, workers)] (+) rest
             ELSE rest

\* number of workers whose position is one of pcs
RECURSIVE CopiesAt(_, _)
CopiesAt(ws, pcs) ==
    IF ws = {} THEN 0
    ELSE LET w == CHOOSE x \in ws : TRUE
         IN  (IF w.pc \in pcs THEN CopiesIn(w, workers) ELSE 0) + CopiesAt(ws \ {w}, pcs)

WorkersAt(pcs) == CopiesAt(BagToSet(workers), pcs)

ResultPaths == [i \in 1..Len(results) |-> results[i].path]

----------------------------------------------------------------------------
(* Properties                                                              *)

\* C1: the file sections of the returned Report are in discovery order:
\* their relative paths are those of the rendered candidates, in the order
\* of filePaths, whatever the interleaving of the workers.
C1_SectionsInDiscoveryOrder ==
    (Collected /\ err = "nil") =>
        LET rendered == SelectSeq(filePaths, LAMBDA p : validateFile(p).err = "nil")
        IN  [i \in 1..Len(Sections) |-> Sections[i].relPath]
                = [i \in 1..Len(rendered) |-> Reported(rendered[i])]

\* C2: once all workers have finished (rendering and after), processed +
\* skipped equals the number of candidates.
C2_CountersCoverCandidates ==
    (~showTree /\ pc \in {"render", "return", "exit"} /\ config /= NoConfig) =>
        stats.processed + stats.skipped = Len(filePaths)

C2_Witness ==
    /\ pc = "render" /\ Len(filePaths) = 2
    /\ stats.processed = 1 /\ stats.skipped = 1

\* C3: every candidate is, at any moment, in exactly one place (not yet sent,
\* queued, held by one worker, or appended), the counters have counted exactly
\* the jobs past the counting step, and at render time the results are the
\* candidates, one FileResult each.
C3_ExactlyOneResultPerCandidate ==
    /\ pc \in {"send", "wait", "render"} =>
        /\ SeqToBag(SubSeq(filePaths, sent + 1, Len(filePaths))) (+) SeqToBag(jobs)
              (+) HeldPaths(BagToSet(workers)) (+) SeqToBag(ResultPaths)
           = SeqToBag(filePaths)
        /\ stats.processed + stats.skipped
           = Len(results) + WorkersAt({"log", "empty", "lock", "append"})
    /\ pc = "render" =>
        /\ Len(results) = Len(filePaths)
        /\ SeqToBag(ResultPaths) = SeqToBag(filePaths)
        /\ stats.processed + stats.skipped = Len(results)

C3_Witness ==
    /\ pc = "render" /\ Len(results) = 2
    /\ results[1].path /= results[2].path

\* C4: a second run over the same file system and configuration returns the
\* same sequence of FileResults, the same Report and the same counters as
\* the first.
C4_SecondRunIdentical ==
    (run = 2 /\ Collected) =>
        /\ results = prev.results
        /\ content = prev.content
        /\ stats = prev.stats

\* C5: collectContent returns an error and no Report exactly when processed
\* is 0; otherwise it returns a Report whose last block is the summary of
\* the three counters.
C5_ErrorIffNothingProcessed ==
    Collected =>
        /\ (err /= "nil") <=> (stats.processed = 0)
        /\ err /= "nil" => (err = "no valid files were processed" /\ content = <<>>)
        /\ stats.processed >= 1 =>
            /\ content /= <<>>
            /\ content[Len(content)] = SummaryBlock(stats)
            /\ Len(Sections) = Len(content) - 1

C5_Witness ==
    /\ Collected /\ Len(filePaths) = 2
    /\ stats.processed = 1 /\ stats.skipped = 1
    /\ err = "nil" /\ Len(content) = 2

\* C6: a path whose relative path matches an ignore pattern is never a
\* candidate, from a folder or from the files list: it is in no queue, no
\* worker, no FileResult and no section, and the counters count candidates only.
C6_IgnoredNeverCandidate ==
    ~showTree =>
        /\ \A i \in 1..Len(filePaths) : ~Ignored(filePaths[i])
        /\ \A i \in 1..Len(jobs) : ~Ignored(jobs[i])
        /\ \A w \in BagToSet(workers) : w.pc /= "recv" => ~Ignored(w.result.path)
        /\ \A i \in 1..Len(results) : ~Ignored(results[i].path)
        /\ \A i \in 1..Len(Sections) :
              \A p \in DOMAIN disk \cup {resolvePath(config.Files[k]) : k \in 1..Len(config.Files)} :
                  ~(Ignored(p) /\ Reported(p) = Sections[i].relPath)
        /\ stats.processed + stats.skipped <= Len(filePaths)
        /\ stats.empty <= stats.processed

C6_Witness ==
    /\ Collected /\ exitCode = 0
    /\ \E k \in 1..Len(config.Files) : Ignored(resolvePath(config.Files[k]))
    /\ \E k \in 1..Len(config.Folders) :
          \E m \in 1..Len(FilepathGlob(resolvePath(config.Folders[k]))) :
              LET p == FilepathGlob(resolvePath(config.Folders[k]))[m]
              IN  ~IsDir(p) /\ Ignored(p)

\* C7: no node line of the tree stands for a path whose relative path
\* matches an ignore pattern, the configured folder roots included.
C7_NoIgnoredNodeInTree ==
    \A i \in 1..Len(buffer) : buffer[i].kind = "node" => ~Ignored(buffer[i].path)

\* C8: a zero-size candidate becomes an Empty result: it is never skipped,
\* processed and empty each count it once, and it has exactly one "(empty)"
\* section.
C8_ZeroSizeIsEmpty ==
    /\ \A w \in BagToSet(workers) :
          (Holding(w) /\ ZeroSize(w.result.path)) => (w.ret.err = "nil" /\ w.ret.content = <<>>)
    /\ \A i \in 1..Len(results) :
          ZeroSize(results[i].path) =>
              (results[i].isEmpty /\ ~results[i].skipped /\ results[i].content = <<>>)
    /\ (~showTree /\ pc \in {"render", "return", "exit"} /\ config /= NoConfig) =>
          /\ stats.empty = CountIn(filePaths, ZeroSize)
          /\ stats.processed >= stats.empty
          /\ stats.skipped <= Len(filePaths) - CountIn(filePaths, ZeroSize)
    /\ (Collected /\ err = "nil") =>
          \A p \in {filePaths[i] : i \in 1..Len(filePaths)} :
              ZeroSize(p) =>
                  CountIn(Sections, LAMBDA b : b.relPath = Reported(p))
                      = CountIn(filePaths, LAMBDA q : q = p)
                  /\ \A i \in 1..Len(Sections) :
                        Sections[i].relPath = Reported(p) => Sections[i].kind = "empty"

C8_Witness ==
    /\ Collected /\ err = "nil" /\ Len(filePaths) = 2
    /\ ZeroSize(filePaths[1]) /\ ~ZeroSize(filePaths[2])
    /\ stats = [processed |-> 2, empty |-> 1, skipped |-> 0]

\* C9: a candidate with a NUL byte among its first 8192 bytes is classified
\* binary: its result is skipped with the binary error, never processed or
\* empty, and no section of the Report is for it, whatever its size.
C9_NulInSampleIsSkipped ==
    /\ \A w \in BagToSet(workers) :
          (Holding(w) /\ NulInSample(w.result.path)) => w.ret.err = "file appears to be binary"
    /\ \A i \in 1..Len(results) :
          NulInSample(results[i].path) =>
              /\ results[i].skipped /\ ~results[i].isEmpty /\ ~results[i].isValid
              /\ results[i].err = "file appears to be binary"
    /\ (~showTree /\ pc \in {"render", "return", "exit"} /\ config /= NoConfig) =>
          /\ stats.skipped >= CountIn(filePaths, NulInSample)
          /\ stats.processed <= Len(filePaths) - CountIn(filePaths, NulInSample)
    /\ \A i \in 1..Len(filePaths) :
          NulInSample(filePaths[i]) =>
              \A k \in 1..Len(Sections) : Sections[k].relPath /= Reported(filePaths[i])

C9_Witness ==
    /\ Collected /\ err = "nil" /\ Len(filePaths) = 2
    /\ \E i \in 1..2 : /\ NulInSample(filePaths[i])
                       /\ disk[filePaths[i]].size > 8192
                       /\ NulOffset(disk[filePaths[i]].content) = 8191
    /\ stats = [processed |-> 1, empty |-> 0, skipped |-> 1]

\* C10: a run whose configuration document has no folders and no files stops
\* in loadConfig with the configuration error: no discovery, pool, rendering
\* or tree step runs, nothing is returned or copied, and the exit status is 1.
C10_EmptyConfigIsFatal ==
    (yaml.state = "ok" /\ yaml.doc.Folders = <<>> /\ yaml.doc.Files = <<>>) =>
        /\ pc \in {"findConfig", "loadConfig", "return", "exit"}
        /\ pc \in {"return", "exit"} =>
              err = "configuration must specify at least one file or folder to process"
        /\ pc = "exit" => exitCode = 1
        /\ config = NoConfig /\ filePaths = <<>> /\ workers = EmptyBag /\ results = <<>>
        /\ stats = ZeroStats /\ buffer = <<>> /\ content = <<>> /\ clipboard = <<>>

C10_Witness ==
    /\ yaml.state = "ok" /\ yaml.doc.Folders = <<>> /\ yaml.doc.Files = <<>>
    /\ yaml.doc.Ignore /= <<>>
    /\ pc = "exit" /\ exitCode = 1

\* the path lies at or below the directory
Under(dir, path) == Len(path) >= Len(dir) /\ SubSeq(path, 1, Len(dir)) = dir

\* the k-th configured folder does not exist
MissingFolder(k) == ~Exists(resolvePath(config.Folders[k]))

\* the regular files at or below a folder that no ignore pattern matches
FilesBelow(folder) ==
    SelectSeq(Walk(resolvePath(folder)), LAMBDA p : ~IsDir(p) /\ ~Ignored(p))

\* what discovery owes for the configuration once its missing folders are
\* left out: the files of the other folders, then the file references
OwedCandidates ==
    LET present == SelectSeq(config.Folders, LAMBDA f : Exists(resolvePath(f)))
        refs == [k \in 1..Len(config.Files) |-> resolvePath(config.Files[k])]
    IN  Flatten([k \in 1..Len(present) |-> FilesBelow(present[k])])
            \o SelectSeq(refs, LAMBDA p : ~Ignored(p))

\* C11: a configured folder that does not exist is skipped and the run goes
\* on: discovery returns no error, the candidate list is the one of the
\* configuration without its missing folders (later folders and all file
\* references included) when discovery hands it to the pool, no candidate
\* or result lies under a missing folder, and when collectContent returns
\* the counters have counted exactly the owed candidates.
C11_MissingFolderSkipped ==
    (~showTree /\ config /= NoConfig) =>
        /\ pc \in {"discover", "spawn", "send", "wait", "render"} => err = "nil"
        /\ pc = "spawn" => filePaths = OwedCandidates
        /\ \A k \in 1..Len(config.Folders) :
              MissingFolder(k) =>
                  /\ \A i \in 1..Len(filePaths) :
                        ~Under(resolvePath(config.Folders[k]), filePaths[i])
                  /\ \A i \in 1..Len(results) :
                        ~Under(resolvePath(config.Folders[k]), results[i].path)
        /\ (Collected /\ pc = "return") => stats.processed + stats.skipped = Len(OwedCandidates)

C11_Witness ==
    /\ Collected /\ exitCode = 0
    /\ Len(config.Folders) = 2 /\ MissingFolder(1) /\ ~MissingFolder(2)
    /\ Len(config.Files) = 1
    /\ \E i \in 1..Len(results) : Under(resolvePath(config.Folders[2]), results[i].path)
    /\ \E i \in 1..Len(results) : results[i].path = resolvePath(config.Files[1])

\* C12: collectContent cannot deadlock.  Under fair scheduling, once the
\* workers are being started the queue is eventually closed, after the close
\* every worker eventually terminates with the queue drained, the wait
\* eventually returns and the rendering step is eventually taken, for zero
\* candidates, one, and more candidates than workers.
C12_PoolTerminates ==
    /\ (pc = "spawn") ~> jobsClosed
    /\ jobsClosed ~> (workers = EmptyBag /\ wg = 0 /\ jobs = <<>>)
    /\ (pc = "wait") ~> (pc = "render")
    /\ (pc = "render") ~> (pc = "return")

C12_Witness ==
    /\ pc = "return" /\ Len(filePaths) > NumWorkers
    /\ Len(results) = Len(filePaths)
    /\ workers = EmptyBag /\ wg = 0 /\ jobsClosed

\* the path cannot be opened or read, or its first 8192 bytes hold a NUL byte
\* or are not valid UTF-8
Unclassifiable(path) ==
    \/ ~Exists(path) \/ ~disk[path].perm \/ disk[path].isDir
    \/ NulInSample(path)
    \/ ~Utf8Valid(Take(disk[path].content, Min(8192, Size(disk[path].content))))

\* C13: a candidate that is unreadable or binary gets a result that is
\* recorded with its error and counted as skipped, and it has no section:
\* the sections of the Report are the non-skipped results, one each and in
\* their order, so there are processed sections, empty of them "(empty)".
C13_SkippedRecordedNotRendered ==
    /\ \A i \in 1..Len(results) :
          /\ results[i].skipped <=> Unclassifiable(results[i].path)
          /\ results[i].skipped <=> results[i].err /= "nil"
    /\ (~showTree /\ pc \in {"render", "return", "exit"} /\ config /= NoConfig) =>
          /\ stats.skipped = CountIn(filePaths, Unclassifiable)
          /\ stats.skipped = CountIn(results, LAMBDA r : r.skipped)
          /\ stats.processed = CountIn(results, LAMBDA r : ~r.skipped)
          /\ stats.empty = CountIn(results, LAMBDA r : ~r.skipped /\ r.isEmpty)
    /\ (Collected /\ err = "nil") =>
          LET kept == SelectSeq(results, LAMBDA r : ~r.skipped)
          IN  /\ Len(Sections) = Len(kept)
              /\ \A i \in 1..Len(kept) :
                    /\ Sections[i].relPath = kept[i].relPath
                    /\ Sections[i].kind = (IF kept[i].isEmpty THEN "empty" ELSE "text")
              /\ Len(Sections) = stats.processed
              /\ CountIn(Sections, LAMBDA b : b.kind = "empty") = stats.empty
    /\ (Collected /\ err /= "nil") => (content = <<>> /\ stats.processed = 0)

C13_Witness ==
    /\ Collected /\ err = "nil" /\ Len(results) = 2 /\ Len(Sections) = 1
    /\ \E i \in 1..2 : results[i].skipped /\ results[i].err = "file contains invalid UTF-8 characters"
    /\ \E i \in 1..2 : ~results[i].skipped /\ results[i].isEmpty

\* generateFolderStructure is running or has returned to main
InTree == showTree /\ config /= NoConfig

\* the configured folders whose printTree call has returned without error
FoldersDone == {k \in 1..Len(config.Folders) : k < fi /\ Exists(resolvePath(config.Folders[k]))}

\* no ignore pattern matches the path or a directory between it and the root
NotPruned(root, path) ==
    \A j \in (Len(root) + 1)..Len(path) : ~Ignored(SubSeq(path, 1, j))

\* depth of a node below its configured folder, which is at depth 0
DepthBelow(root, path) == Len(path) - Len(root)

\* number of node lines written for the path
NodeLines(path) == CountIn(buffer, LAMBDA ln : ln.kind = "node" /\ ln.path = path)

\* C14: with a depth limit d > 0 a node that ignore patterns do not prune is
\* rendered, once per configured folder it lies under, if and only if its
\* depth below that folder is at most d (the folder is depth 0, a child one
\* deeper than its parent); with d = 0 no node is pruned by depth.
C14_DepthLimit ==
    (InTree /\ err = "nil") =>
        \A p \in {q \in DOMAIN disk : ~Ignored(q)} :
            NodeLines(p) =
                Cardinality({k \in FoldersDone :
                    LET root == resolvePath(config.Folders[k])
                    IN  /\ Under(root, p) /\ NotPruned(root, p)
                        /\ (config.TreeDepth = 0 \/ DepthBelow(root, p) <= config.TreeDepth)})

C14_Witness ==
    /\ InTree /\ pc = "exit" /\ exitCode = 0
    /\ config.TreeDepth = 1 /\ config.Ignore = <<>>
    /\ NodeLines(<<"src">>) = 1 /\ NodeLines(<<"src", "a">>) = 1
    /\ NodeLines(<<"src", "a", "b">>) = 0 /\ NodeLines(PC) = 0

\* number of node lines of a text that stand for directories / for files
DirLines(lines) == CountIn(lines, LAMBDA ln : ln.kind = "node" /\ ln.isDir)
FileLines(lines) == CountIn(lines, LAMBDA ln : ln.kind = "node" /\ ~ln.isDir)

\* generateFolderStructure has returned with every configured folder
\* processed without error
TreeAllFolders == InTree /\ pc \in {"return", "exit"} /\ fi > Len(config.Folders)

\* C15: the two counters count the directory and file lines written; once
\* every configured folder has been processed without error the function
\* fails exactly when both are zero, and otherwise returns the text whose
\* last line is the summary of the two counters, equal to the numbers of
\* directory and file lines of the text.  (Its one other failure is a
\* folder's own error, before all folders are processed.)
C15_TreeFailsIffNothingRendered ==
    InTree =>
        /\ treeStats.dirs = DirLines(buffer) /\ treeStats.files = FileLines(buffer)
        /\ TreeAllFolders =>
              /\ (err /= "nil") <=> (treeStats.dirs = 0 /\ treeStats.files = 0)
              /\ err /= "nil" =>
                    (err = "no valid folders or files were found" /\ content = <<>>)
              /\ err = "nil" =>
                    /\ content /= <<>>
                    /\ content[Len(content)].kind = "summary"
                    /\ content[Len(content)].counts = <<DirLines(content), FileLines(content)>>
                    /\ CountIn(content, LAMBDA ln : ln.kind = "summary") = 1
        /\ (pc \in {"return", "exit"} /\ fi <= Len(config.Folders)) =>
              err = "error processing folder"

C15_Witness ==
    /\ TreeAllFolders /\ pc = "exit" /\ exitCode = 1
    /\ config.Folders = <<>> /\ config.Files /= <<>>
    /\ err = "no valid folders or files were found" /\ clipboard = <<>>

\* the string is a non-empty relative path with "/" as its only separator,
\* and names the path relative to the configuration file's directory
SlashRelative(str, path) ==
    /\ str /= <<>>
    /\ \A i \in 1..Len(str) : str[i] /= "\\"
    /\ \A i \in 1..Len(str) : (i % 2 = 0) <=> (str[i] = "/")
    /\ RelOf(path).ok => SplitSlash(str) = RelOf(path).path

\* C16: the relative path of every FileResult, held by a worker or
\* recorded, and of every section header is non-empty, relative to the
\* configuration file's directory and separated by "/" only, on Linux and
\* on Windows, for relative and for absolute references.
C16_RelPathNormalized ==
    ~showTree =>
        /\ \A w \in BagToSet(workers) :
              Holding(w) => SlashRelative(w.result.relPath, w.result.path)
        /\ \A i \in 1..Len(results) : SlashRelative(results[i].relPath, results[i].path)
        /\ \A i \in 1..Len(Sections) :
              /\ Sections[i].relPath /= <<>>
              /\ \A k \in 1..Len(Sections[i].relPath) : Sections[i].relPath[k] /= "\\"

\* C17: the workers' output is serialized: at no time are two workers inside
\* saveToOutput writing a "Skipping" line to the log file, and at no time
\* are two workers inside the Printf of a progress line.
C17_OutputSerialized ==
    /\ WorkersAt({"log"}) <= 1
    /\ WorkersAt({"print"}) <= 1

\* C18: while main renders the Report and reads the counters, and ever
\* after, no worker is left: every worker has run wg.Done, the queue is
\* closed and empty, the mutex is free and every candidate has its result,
\* so nothing can still be appended or counted; the summary returned shows
\* the counters of the complete result collection.
C18_RenderAfterWorkers ==
    (~showTree /\ config /= NoConfig /\ pc \in {"render", "return", "exit"}) =>
        /\ workers = EmptyBag /\ wg = 0 /\ spawned = NumWorkers
        /\ jobsClosed /\ jobs = <<>> /\ sent = Len(filePaths)
        /\ ~resultsMutex
        /\ Len(results) = Len(filePaths)
        /\ (pc /= "render" /\ err = "nil") =>
              content[Len(content)].counts
                  = << CountIn(results, LAMBDA r : ~r.skipped),
                       CountIn(results, LAMBDA r : ~r.skipped /\ r.isEmpty),
                       CountIn(results, LAMBDA r : r.skipped) >>

C18_Witness ==
    /\ ~showTree /\ pc = "render"
    /\ Len(filePaths) = 2 /\ Len(results) = 2
    /\ workers = EmptyBag /\ spawned = NumWorkers

\* the channel has been made
JobsMade == ~showTree /\ config /= NoConfig /\ pc \in {"spawn", "send", "wait", "render", "return", "exit"}

\* C19: the queue's capacity is the number of candidates and never
\* exceeded; whenever the producer has a candidate left its send can be
\* taken at once, whether or not a worker has received anything; and the
\* queue is closed only when every candidate has been enqueued.
C19_SendNeverBlocks ==
    JobsMade =>
        /\ jobsCap = Len(filePaths)
        /\ Len(jobs) <= jobsCap /\ Len(jobs) <= sent /\ sent <= Len(filePaths)
        /\ (pc = "send" /\ sent < Len(filePaths)) => (Len(jobs) < jobsCap /\ ENABLED Send)
        /\ jobsClosed => sent = Len(filePaths)
        /\ pc \in {"spawn", "send"} <=> ~jobsClosed

C19_Witness ==
    /\ JobsMade /\ pc = "send" /\ ~jobsClosed
    /\ Len(filePaths) = 2 /\ sent = 2 /\ Len(jobs) = 2 /\ jobsCap = 2
    /\ \A w \in BagToSet(workers) : w.pc = "recv"
    /\ results = <<>>

\* the candidates the k-th configured folder contributes, in traversal order
BlockOf(k) == IF MissingFolder(k) THEN <<>> ELSE FilesBelow(config.Folders[k])

\* number of candidates the folders before the k-th contribute
RECURSIVE BlockStart(_)
BlockStart(k) == IF k <= 1 THEN 0 ELSE BlockStart(k - 1) + Len(BlockOf(k - 1))

\* the file references among the first n that are candidates, in their order
FileRefsUpTo(n) ==
    SelectSeq([k \in 1..n |-> resolvePath(config.Files[k])], LAMBDA q : ~Ignored(q))

C21_NoDirectoryCandidate ==
    ~showTree =>
        /\ \A i \in 1..Len(filePaths) : ~IsDir(filePaths[i])
        /\ \A i \in 1..Len(jobs) : ~IsDir(jobs[i])
        /\ \A i \in 1..Len(results) : ~IsDir(results[i].path)

\* C22: in tree mode a configured folder that does not exist or cannot be
\* read does not make the run fail: generateFolderStructure never returns
\* a folder's error, it returns only after the loop has gone through every
\* configured folder, and every existing folder has its root line.
C22_TreeFolderFailureAbsorbed ==
    InTree =>
        /\ err /= "error processing folder"
        /\ pc \in {"return", "exit"} =>
              /\ fi > Len(config.Folders)
              /\ \A k \in 1..Len(config.Folders) :
                    Exists(resolvePath(config.Folders[k]))
                        => NodeLines(resolvePath(config.Folders[k])) >= 1

\* the first 8192 bytes of a byte string
Prefix8K(c) == Take(c, Min(8192, Size(c)))

\* the path is a readable non-empty regular file whose first 8192 bytes
\* are NUL-free valid UTF-8
SampleClean(path) ==
    /\ Exists(path) /\ ~disk[path].isDir /\ disk[path].perm /\ disk[path].size > 0
    /\ ~ContainsByte(Prefix8K(disk[path].content), 0)
    /\ Utf8Valid(Prefix8K(disk[path].content))

\* the file has a NUL byte or an invalid byte, but only after its first 8192 bytes
DirtyBeyondSample(path) ==
    /\ SampleClean(path)
    /\ ContainsByte(disk[path].content, 0) \/ ~Utf8Valid(disk[path].content)

\* C23: only the first 8192 bytes decide.  A candidate whose sample is
\* NUL-free valid UTF-8 is Text: its result is valid, not skipped, not
\* empty and holds the complete content, it is counted as processed and
\* its section shows the complete content, whatever follows the sample.
C23_OnlySampleInspected ==
    /\ \A w \in BagToSet(workers) :
          (Holding(w) /\ SampleClean(w.result.path)) =>
              (w.ret.err = "nil" /\ w.ret.isValid /\ w.ret.content = disk[w.result.path].content)
    /\ \A i \in 1..Len(results) :
          SampleClean(results[i].path) =>
              /\ results[i].isValid /\ ~results[i].skipped /\ ~results[i].isEmpty
              /\ results[i].err = "nil"
              /\ results[i].content = disk[results[i].path].content
    /\ (~showTree /\ pc \in {"render", "return", "exit"} /\ config /= NoConfig) =>
          stats.processed - stats.empty = CountIn(filePaths, SampleClean)
    /\ (Collected /\ err = "nil") =>
          \A i \in 1..Len(filePaths) :
              SampleClean(filePaths[i]) =>
                  \E k \in 1..Len(Sections) :
                      /\ Sections[k].relPath = Reported(filePaths[i])
                      /\ Sections[k].kind = "text"
                      /\ Sections[k].content = disk[filePaths[i]].content

C23_Witness ==
    /\ Collected /\ err = "nil" /\ pc = "exit" /\ exitCode = 0
    /\ \E i \in 1..Len(results) :
          /\ DirtyBeyondSample(results[i].path)
          /\ NulOffset(disk[results[i].path].content) = 8192
          /\ ~results[i].skipped /\ Size(results[i].content) = 8193
    /\ clipboard = content

\* some pattern of the list is well formed and matches the path's relative path
WellFormedMatch(path) ==
    /\ RelOf(path).ok
    /\ \E i \in 1..Len(config.Ignore) :
          ~Malformed(config.Ignore[i]) /\ MatchSegs(config.Ignore[i], RelOf(path).path)

\* the paths the filter is asked about: the file system's and the file references
AskedPaths == DOMAIN disk \cup {resolvePath(config.Files[k]) : k \in 1..Len(config.Files)}

\* C24: a malformed ignore pattern matches nothing and stops nothing.  For
\* every path, shouldIncludeFile is false exactly when some well-formed
\* pattern matches it, wherever the malformed ones stand in the list;
\* discovery goes on without an error, and a candidate is never a path
\* that a well-formed pattern matches.
C24_MalformedPatternNeverMatches ==
    (config /= NoConfig /\ pc \in {"discover", "spawn", "tree", "return"}) =>
        /\ \A p \in AskedPaths : ~shouldIncludeFile(p) <=> WellFormedMatch(p)
        /\ \A i \in 1..Len(config.Ignore) :
              Malformed(config.Ignore[i]) =>
                  \A p \in AskedPaths :
                      RelOf(p).ok =>
                          /\ ~Match(config.Ignore[i], RelOf(p).path).matched
                          /\ Match(config.Ignore[i], RelOf(p).path).err /= "nil"
        /\ (~showTree /\ pc \in {"discover", "spawn"}) =>
              /\ err = "nil"
              /\ \A i \in 1..Len(filePaths) : ~WellFormedMatch(filePaths[i])

C24_Witness ==
    /\ ~showTree /\ pc = "spawn"
    /\ Len(config.Ignore) = 2 /\ Malformed(config.Ignore[1]) /\ ~Malformed(config.Ignore[2])
    /\ config.Folders = << <<"src">> >>
    /\ WellFormedMatch(PC) /\ filePaths = <<PX>>

\* main is between the start of the first worker and the end of rendering
Aggregating == ~showTree /\ pc \in {"spawn", "send", "wait", "render"}

\* C25: aggregation leaves its inputs alone.  No step taken between the
\* start of the workers and the end of rendering changes the configuration,
\* the candidate list, the configuration file or the file system, and the
\* configuration in use is the one that was loaded.  Of the data shared
\* with main, a step that is not main's own changes at most the counters
\* and the result collection.
C25_InputsUnchangedByAggregation ==
    [][Aggregating =>
          /\ config' = config /\ filePaths' = filePaths
          /\ config = yaml.doc
          /\ UNCHANGED <<envVars, fi>>
          /\ pc' = pc => UNCHANGED <<treeVars, outVars, exitCode>>]_vars

C25_Witness ==
    /\ ~showTree /\ pc = "return" /\ err = "nil"
    /\ Len(filePaths) = 2 /\ Len(results) = 2
    /\ config = yaml.doc /\ config.Ignore /= <<>>

\* workers that have added to a counter and not yet appended their result
CountedNotAppended == WorkersAt({"log", "empty", "lock", "append"})

\* C26: the counters of collectContent.  None of the three ever decreases
\* and each step adds at most one to one of them; empty <= processed;
\* processed + skipped <= number of candidates; and the results collected
\* so far satisfy len(results) <= processed + skipped <= len(results) + 8,
\* the difference being the workers that have counted a file and not yet
\* appended it.
C26_CounterBounds ==
    /\ [](/\ stats.processed >= 0 /\ stats.empty >= 0 /\ stats.skipped >= 0
          /\ stats.empty <= stats.processed
          /\ stats.processed + stats.skipped <= Len(filePaths)
          /\ Len(results) <= stats.processed + stats.skipped
          /\ stats.processed + stats.skipped <= Len(results) + NumWorkers
          /\ stats.processed + stats.skipped = Len(results) + CountedNotAppended
          /\ CountedNotAppended <= NumWorkers)
    /\ [][/\ stats'.processed >= stats.processed
          /\ stats'.empty >= stats.empty
          /\ stats'.skipped >= stats.skipped
          /\ (stats'.processed + stats'.empty + stats'.skipped)
                 <= (stats.processed + stats.empty + stats.skipped) + 1
          /\ Len(results') >= Len(results)]_vars

\* all eight workers have counted a file and none has appended it yet
C26_Witness ==
    /\ Len(filePaths) > NumWorkers
    /\ Len(results) = 0
    /\ stats.processed + stats.skipped = NumWorkers

\* the path is a readable non-empty regular file whose entire content is
\* NUL-free valid UTF-8
WhollyText(path) ==
    /\ Exists(path) /\ ~disk[path].isDir /\ disk[path].perm /\ disk[path].size > 0
    /\ ~ContainsByte(disk[path].content, 0)
    /\ Utf8Valid(disk[path].content)

\* C27: a readable non-empty file that is NUL-free valid UTF-8 throughout
\* is Text whatever its size: its result is valid, not skipped and holds
\* the complete content, and with every such candidate collected the
\* processed counter covers them all.
C27_ValidUtf8IsText ==
    ~showTree =>
        /\ \A i \in 1..Len(results) :
              WhollyText(results[i].path) =>
                  /\ results[i].isValid /\ ~results[i].skipped
                  /\ results[i].err = "nil"
                  /\ results[i].content = disk[results[i].path].content
        /\ (Collected /\ pc = "return") =>
              stats.processed >= CountIn(filePaths, WhollyText)

----------------------------------------------------------------------------
(* The sequential collectContent of the legacy variant                     *)

\* the locals of the legacy collectContent: the stats struct, the
\* strings.Builder and the lines handed to saveToOutput
LegacyStart == [stats |-> ZeroStats, allContent |-> <<>>, log |-> <<>>]

\* the processFile closure: one candidate validated, counted and written
processFile(st, path) ==
    LET rel == Rel(Dir(configPath), path)
        relPath == PathString(rel.path)
        ret == validateFile(path)
    IN  IF ret.err /= "nil" THEN
            [st EXCEPT !.stats.skipped = @ + 1,
                       !.log = IF logOutput THEN Append(@, <<relPath, ret.err>>) ELSE @]
        ELSE IF ~ret.isValid \/ Size(ret.content) = 0 THEN
            [st EXCEPT !.stats.processed = @ + 1, !.stats.empty = @ + 1,
                       !.allContent = Append(@, [kind |-> "empty", relPath |-> relPath,
                                                 content |-> <<>>, counts |-> <<>>])]
        ELSE
            [st EXCEPT !.stats.processed = @ + 1,
                       !.allContent = Append(@, [kind |-> "text", relPath |-> relPath,
                                                 content |-> ret.content, counts |-> <<>>])]

\* the calls of processFile made by the two loops, one per candidate, in order
RECURSIVE processFiles(_, _)
processFiles(st, paths) ==
    IF paths = <<>> THEN st
    ELSE processFiles(processFile(st, Head(paths)), Tail(paths))

\* the summary written after the loops and the processed == 0 check
legacyCollectContent(paths) ==
    LET st == processFiles(LegacyStart, paths)
        summary == [kind |-> "summary", relPath |-> <<>>, content |-> <<>>,
                    counts |-> <<st.stats.processed, st.stats.empty, st.stats.skipped>>]
    IN  IF st.stats.processed = 0
        THEN [content |-> <<>>, err |-> "no valid files were processed",
              stats |-> st.stats, sections |-> st.allContent, summary |-> summary]
        ELSE [content |-> st.allContent \o <<summary>>, err |-> "nil",
              stats |-> st.stats, sections |-> st.allContent, summary |-> summary]

\* C28: the concurrent collectContent and the sequential processFile loop
\* agree.  Run over the same candidate list, with every interleaving of
\* the workers, the concurrent one returns with the same processed, empty
\* and skipped counters, the same error, the same multiset of file
\* sections and the same summary block as the sequential one.
C28_AgreesWithSequential ==
    (Collected /\ pc = "return") =>
        LET legacy == legacyCollectContent(filePaths)
        IN  /\ stats = legacy.stats
            /\ err = legacy.err
            /\ Len(content) = Len(legacy.content)
            /\ SeqToBag(Sections) = SeqToBag(SelectSeq(legacy.content,
                                                      LAMBDA b : b.kind /= "summary"))
            /\ SeqToBag(RenderResults(results)) = SeqToBag(legacy.sections)
            /\ SummaryBlock(stats) = legacy.summary
            /\ err = "nil" => content[Len(content)] = legacy.content[Len(legacy.content)]

\* two sections, one of them of an empty file, written in the order
\* opposite to the sequential one
C28_Witness ==
    /\ Collected /\ pc = "return" /\ err = "nil"
    /\ Len(Sections) = 2
    /\ \E i \in 1..2 : Sections[i].kind = "empty"
    /\ Sections /= legacyCollectContent(filePaths).sections
    /\ SeqToBag(Sections) = SeqToBag(legacyCollectContent(filePaths).sections)

====
